---- MODULE Spec2Model ----
(***************************************************************************)
(* Model of sup/stream.py: MediaStream (one polling thread per video       *)
(* source) and StreamManager (the registry STREAM of MediaStream objects). *)
(***************************************************************************)
EXTENDS Integers, Sequences, FiniteSets, TLC

VARIABLES
    STREAM,     \* StreamManager.STREAM: raw url -> handle id, 0 when absent
    hs,         \* handle id -> the fields of that MediaStream object
    nhandles,   \* MediaStream objects constructed so far
    th,         \* caller threads: the call in progress and its last outcome
    present,    \* the sources (resolved urls) cv2.VideoCapture can open
    now,        \* time.time(), in seconds
    calls,      \* API calls started so far
    OUT,        \* StreamingServer.OUT: path -> entry id, 0 when absent
    entries,    \* entry id -> the dict {'_': stream, 'b': frame} of line 243
    capt,       \* the capture thread of StreamingServer, lines 246-251
    conns       \* HTTP connections: the handler's place and what it wrote

http == <<OUT, entries, capt, conns>>

vars == <<STREAM, hs, nhandles, th, present, now, calls, OUT, entries, capt,
          conns>>

----------------------------------------------------------------------------
(* Program constants *)

DefaultDim == 512
MaxDim == 8192
StallLimit == 2
ScanRange == 5
CapAny == 0
DefaultFps == 60
MinFps == 1

(* Bounds of the model *)

MaxNew == 2        \* MediaStream objects constructed after the first scan
MaxCalls == 3      \* API calls made by the callers
MaxTime == 3       \* the clock stops here
FrameCount == 2    \* frames of the video file
NativeRows == 1    \* shape of a decoded frame
NativeCols == 2
MaxScans == 1      \* rescans after the first scan
MaxParts == 2      \* parts a connection is sent

CapAlt == CapAny + 1

Threads == {1, 2}
Handles == 1..(ScanRange * (1 + MaxScans) + MaxNew)
NoHandle == 0
None == -1         \* timeout = None
Black == -1        \* np.zeros content

----------------------------------------------------------------------------
(* Source identifiers.  A raw url is <<"int", digits>> for a Python int   *)
(* and <<"str", text>> for a Python str.                                  *)

Digits == {"0", "1", "2", "3", "4"}
DigitSeq == <<"0", "1", "2", "3", "4">>

UrlInt(i) == <<"int", DigitSeq[i + 1]>>
UrlStr0 == <<"str", "0">>
UrlFile == <<"str", "res/stream-video.mp4">>
UrlNoFile == <<"str", "missing.mp4">>

ScanUrls == {UrlInt(i) : i \in 0..(ScanRange - 1)}
Urls == ScanUrls \cup {UrlStr0, UrlFile, UrlNoFile}

\* int(url): an int stays, a str of digits parses, anything else raises
\* ValueError and the url is kept as given
IntOf(url) ==
    IF url[1] = "int" THEN url
    ELSE IF url[2] \in Digits THEN <<"int", url[2]>>
    ELSE url

IsFile(rurl) == rurl[1] = "str"

\* cv2.VideoCapture(url, backend).isOpened(): the source exists; the
\* alternative backend is a camera API and opens no file
CanOpen(rurl, backend) ==
    /\ rurl \in present
    /\ (backend = CapAny \/ ~IsFile(rurl))

----------------------------------------------------------------------------
(* Images and capture objects *)

NullFrame == [null |-> TRUE, rows |-> 0, cols |-> 0, img |-> Black]
Image(r, c, i) == [null |-> FALSE, rows |-> r, cols |-> c, img |-> i]

NoSource == [obj |-> FALSE, opened |-> FALSE, pos |-> 0]
VideoCapture(rurl, backend) ==
    [obj |-> TRUE, opened |-> CanOpen(rurl, backend), pos |-> 0]

Clip(x, lo, hi) == IF x < lo THEN lo ELSE IF x > hi THEN hi ELSE x

\* cv2.resize(img, dsize) with dsize = (width, height): raises on an empty
\* dsize, else yields height rows and width columns
ResizeRaises(dsize) == dsize[1] <= 0 \/ dsize[2] <= 0
Resize(f, dsize) == Image(dsize[2], dsize[1], f.img)

----------------------------------------------------------------------------
(* MediaStream: the object *)

NoSize == << >>    \* size = None (falsy, like the empty tuple)

\* size.setter, lines 135-138: the tuple stored in self.__size
SizeOf(size) ==
    LET s == IF size = << >> THEN <<DefaultDim, DefaultDim>> ELSE size
        width == Clip(IF s[1] = 0 THEN DefaultDim ELSE s[1], 0, MaxDim)
        height == Clip(IF s[2] = 0 THEN DefaultDim ELSE s[2], 0, MaxDim)
    IN  <<height, width>>

\* size.setter, line 139: cv2.resize raises and leaves self.__frame as it was
SizeSetRaises(size) == ResizeRaises(SizeOf(size))

SizeSet(r, size) ==
    [r EXCEPT !.size = SizeOf(size),
              !.frame = IF SizeSetRaises(size) THEN @ ELSE Resize(@, SizeOf(size))]

BackendList(backend) == IF backend # 0 THEN <<backend>> ELSE <<CapAny>>

\* a slot of hs that holds no object yet
Unborn ==
    [url |-> UrlInt(0), source |-> NoSource, quit |-> FALSE, paused |-> TRUE,
     ret |-> FALSE, backend |-> <<CapAny>>, frame |-> NullFrame,
     size |-> <<0, 0>>, lpc |-> "none", newframe |-> NullFrame,
     timeout |-> None, opens |-> 0, fails |-> 0, attempts |-> 0,
     stallSince |-> None, fps |-> DefaultFps, fpsarg |-> None]

\* a constructor that leaves the loop unpaused
MediaStreamInitRunning(url, size, backend) ==
    SizeSet([Unborn EXCEPT !.backend = BackendList(backend),
                           !.frame = Image(1, 1, Black),
                           !.url = IntOf(url),
                           !.paused = FALSE,
                           !.lpc = "top"], size)

\* __init__ of a MediaStream whose size setter does not raise; the thread is
\* started at the top of __run.  opens, fails, attempts and stallSince are
\* history: captures opened, CAPTURE FAIL lines logged, reopen attempts of
\* the loop, and the time of the first failing iteration of the current run
MediaStreamInit(url, size, backend) ==
    SizeSet([Unborn EXCEPT !.backend = BackendList(backend),
                           !.frame = Image(1, 1, Black),
                           !.url = IntOf(url),
                           !.lpc = "top"], size)

\* line 30, fps or 60: None and 0 are falsy
FpsOr(fps, other) == IF fps = None \/ fps = 0 THEN other ELSE fps

\* __init__ with the fps argument; fpsarg is history, the argument as given
MediaStreamInitFps(url, size, fps, backend) ==
    [MediaStreamInit(url, size, backend) EXCEPT
        !.fps = FpsOr(fps, DefaultFps), !.fpsarg = fps]

\* source.get(cv2.CAP_PROP_FPS): the rate the file or the camera reports
FileFps == 25
CameraFps == 30
SrcFps(r) == IF IsFile(r.url) THEN FileFps ELSE CameraFps

Max(a, b) == IF a >= b THEN a ELSE b

\* capture(), line 97
CaptureIsOpen(r) == r.source.obj /\ r.source.opened

\* a capture() that opens the source again although it is open
CaptureEarlyReopens(r) ==
    [r EXCEPT !.paused = FALSE,
              !.source = VideoCapture(r.url, r.backend[1]),
              !.opens = @ + 1]

\* capture(), lines 98-100
CaptureEarly(r) == [r EXCEPT !.paused = FALSE]

\* capture(), lines 104-108: the object left in self.__source by the loop
\* over the backend list
RECURSIVE OpenLoop(_, _, _)
OpenLoop(rurl, backends, i) ==
    LET src == VideoCapture(rurl, backends[i])
    IN  IF src.opened \/ i >= Len(backends) THEN src
        ELSE OpenLoop(rurl, backends, i + 1)

\* a capture() that logs nothing when no backend opens the source
CaptureOpenSilent(r) ==
    [r EXCEPT !.source = OpenLoop(r.url, r.backend, 1),
              !.opens = IF OpenLoop(r.url, r.backend, 1).opened THEN @ + 1
                        ELSE @]

\* capture(), lines 102-113
CaptureOpen(r) ==
    LET src == OpenLoop(r.url, r.backend, 1)
    IN  IF src.opened
        THEN [r EXCEPT !.source = src, !.opens = @ + 1]
        ELSE [r EXCEPT !.source = src, !.fails = @ + 1]

\* capture(), lines 115-118
CaptureFinish(r) ==
    [r EXCEPT !.fps = Max(MinFps, FpsOr(r.fps, SrcFps(r))), !.paused = FALSE]

\* capture() run in one piece, as the polling loop calls it
Capture(r) ==
    IF CaptureIsOpen(r) THEN CaptureEarly(r)
    ELSE LET o == CaptureOpen(r)
         IN  IF o.source.opened THEN CaptureFinish(o) ELSE o

Pause(r) == [r EXCEPT !.paused = TRUE]

Release(r) ==
    IF r.source.obj
    THEN [r EXCEPT !.source = [obj |-> TRUE, opened |-> FALSE, pos |-> 0]]
    ELSE r

FrameOf(r) == <<r.ret, r.frame>>

IsOpen(r) == IF ~r.source.obj THEN FALSE ELSE r.source.opened

----------------------------------------------------------------------------
(* The capture object, as the polling loop uses it *)

\* source.read() can succeed: the capture is open and, for a file, not at
\* its end
CanRead(r) ==
    /\ r.source.obj
    /\ r.source.opened
    /\ (IsFile(r.url) => r.source.pos < FrameCount)

\* the frame a successful read decodes, and the capture after it
ReadFrame(r) ==
    Image(NativeRows, NativeCols, IF IsFile(r.url) THEN r.source.pos ELSE 0)

ReadAdvance(r) ==
    IF IsFile(r.url) THEN [r.source EXCEPT !.pos = @ + 1] ELSE r.source

\* source.get(cv2.CAP_PROP_FRAME_COUNT), source.get(cv2.CAP_PROP_POS_FRAMES)
SrcCount(r) ==
    IF ~r.source.opened THEN 0 ELSE IF IsFile(r.url) THEN FrameCount ELSE -1

SrcPos(r) == IF r.source.opened THEN r.source.pos ELSE 0

\* a loop that does not seek back
SrcRewindNot(r) == r.source

\* source.set(cv2.CAP_PROP_POS_FRAMES, 0)
SrcRewind(r) ==
    IF r.source.opened /\ IsFile(r.url)
    THEN [r.source EXCEPT !.pos = 0] ELSE r.source

----------------------------------------------------------------------------
(* MediaStream.__run, one iteration in two steps: lines 48-56 (the test of  *)
(* quit and paused, and the read), then lines 58-78 (the result of the      *)
(* read).  ok: whether a read that can succeed does.                        *)

\* a loop that reads whether or not the MediaStream is paused
RunReadIgnoresPause(r, ok) ==
    IF r.quit THEN [r EXCEPT !.lpc = "stopped"]
    ELSE IF ok /\ CanRead(r)
         THEN [r EXCEPT !.timeout = None, !.ret = TRUE,
                        !.newframe = ReadFrame(r), !.source = ReadAdvance(r),
                        !.lpc = "proc"]
         ELSE [r EXCEPT !.timeout = None, !.ret = FALSE,
                        !.newframe = NullFrame, !.lpc = "proc"]

RunRead(r, ok) ==
    IF r.quit THEN [r EXCEPT !.lpc = "stopped"]
    ELSE IF r.paused
         THEN [r EXCEPT !.timeout = None, !.stallSince = None]
    ELSE IF ok /\ CanRead(r)
         THEN [r EXCEPT !.timeout = None, !.ret = TRUE,
                        !.newframe = ReadFrame(r), !.source = ReadAdvance(r),
                        !.lpc = "proc"]
         \* a failed read; a read of None raises and the except clause
         \* clears the flag
         ELSE [r EXCEPT !.timeout = None, !.ret = FALSE,
                        !.newframe = NullFrame, !.lpc = "proc"]

\* lines 58-63
RunStore(r) ==
    LET width == r.newframe.rows
        height == r.newframe.cols
        differs == width # r.size[2] \/ height # r.size[1]
    IN  IF differs /\ ResizeRaises(r.size)
        THEN [r EXCEPT !.lpc = "crashed"]
        ELSE [r EXCEPT !.timeout = None, !.stallSince = None,
                       !.frame = IF differs THEN Resize(r.newframe, r.size)
                                 ELSE r.newframe,
                       !.lpc = "top"]

\* lines 72-78, the capture being closed
RunStall(r) ==
    LET s == [r EXCEPT !.stallSince = IF @ = None THEN now ELSE @]
    IN  IF s.timeout = None
        THEN [s EXCEPT !.timeout = now]
        ELSE IF now - s.timeout > StallLimit
             THEN Capture([Release(s) EXCEPT !.attempts = @ + 1,
                                              !.stallSince = None])
             ELSE s

\* lines 64-78
RunFail(r) ==
    IF ~r.source.obj THEN [r EXCEPT !.lpc = "crashed"]
    ELSE LET q == IF ~r.ret /\ SrcPos(r) >= SrcCount(r)
                  THEN [r EXCEPT !.source = SrcRewind(r)] ELSE r
         IN  IF ~q.source.opened
             THEN [RunStall(q) EXCEPT !.lpc = "top"]
             ELSE [q EXCEPT !.stallSince = None, !.lpc = "top"]

\* a loop that stores whatever the read gave
RunProcessUnguarded(r) ==
    IF r.ret THEN RunStore(r)
    ELSE [r EXCEPT !.frame = r.newframe, !.lpc = "top"]

RunProcess(r) ==
    IF r.ret /\ ~r.newframe.null THEN RunStore(r) ELSE RunFail(r)

----------------------------------------------------------------------------
(* Caller threads.  pc is the place of the call in progress; url and h are *)
(* its argument and the MediaStream it works on; ret, raised and how are   *)
(* the outcome of the thread's last call: the MediaStream returned,        *)
(* whether it raised, and the way capture() returned ("early": line 100,   *)
(* "fail": line 113, "opened": line 118); out is the pair the last         *)
(* StreamManager.frame() returned.                                         *)

NoOut == <<FALSE, NullFrame>>

Idle == [pc |-> "idle", url |-> UrlInt(0), h |-> NoHandle,
         ret |-> NoHandle, raised |-> FALSE, how |-> "none", out |-> NoOut]

Call(t, url, h, pc, raised) ==
    /\ th[t].pc = "idle"
    /\ calls < MaxCalls
    /\ calls' = calls + 1
    /\ th' = [th EXCEPT ![t] = [pc |-> pc, url |-> url, h |-> h,
                                ret |-> NoHandle, raised |-> raised,
                                how |-> "none", out |-> NoOut]]

Return(t, h, how) ==
    th' = [th EXCEPT ![t].pc = "idle", ![t].ret = h, ![t].how = how]

----------------------------------------------------------------------------
(* The polling thread of MediaStream h *)

Run(h) ==
    /\ hs[h].lpc = "top"
    /\ \E ok \in BOOLEAN :
        /\ ok => CanRead(hs[h])
        /\ hs' = [hs EXCEPT ![h] = RunRead(hs[h], ok)]
    /\ UNCHANGED <<STREAM, nhandles, th, present, now, calls, http>>

RunResult(h) ==
    /\ hs[h].lpc = "proc"
    /\ hs' = [hs EXCEPT ![h] = RunProcess(hs[h])]
    /\ UNCHANGED <<STREAM, nhandles, th, present, now, calls, http>>

----------------------------------------------------------------------------
(* MediaStream.capture(), called by thread t on th[t].h *)

CaptureCheck(t) ==
    /\ th[t].pc = "cap_check"
    /\ IF CaptureIsOpen(hs[th[t].h])
       THEN /\ hs' = [hs EXCEPT ![th[t].h] = CaptureEarly(@)]
            /\ Return(t, th[t].h, "early")
       ELSE /\ th' = [th EXCEPT ![t].pc = "cap_open"]
            /\ UNCHANGED hs
    /\ UNCHANGED <<STREAM, nhandles, present, now, calls, http>>

CaptureTry(t) ==
    /\ th[t].pc = "cap_open"
    /\ hs' = [hs EXCEPT ![th[t].h] = CaptureOpen(@)]
    /\ IF hs'[th[t].h].source.opened
       THEN th' = [th EXCEPT ![t].pc = "cap_finish"]
       ELSE Return(t, th[t].h, "fail")
    /\ UNCHANGED <<STREAM, nhandles, present, now, calls, http>>

CaptureDone(t) ==
    /\ th[t].pc = "cap_finish"
    /\ hs' = [hs EXCEPT ![th[t].h] = CaptureFinish(@)]
    /\ Return(t, th[t].h, "opened")
    /\ UNCHANGED <<STREAM, nhandles, present, now, calls, http>>

----------------------------------------------------------------------------
(* StreamManager *)

\* a capture(url) that makes a MediaStream on every call
SMCaptureAlwaysCreates(t, url) ==
    /\ Call(t, url, NoHandle, "cap_create", FALSE)
    /\ UNCHANGED <<STREAM, hs, nhandles, present, now, http>>

\* capture(url), line 201
SMCapture(t, url) ==
    /\ IF STREAM[url] = NoHandle
       THEN Call(t, url, NoHandle, "cap_create", FALSE)
       ELSE Call(t, url, STREAM[url], "cap_check", FALSE)
    /\ UNCHANGED <<STREAM, hs, nhandles, present, now, http>>

\* capture(url), line 202, with size, fps and backend left at None
SMCaptureCreate(t) ==
    /\ th[t].pc = "cap_create"
    /\ nhandles < ScanRange + MaxNew
    /\ nhandles' = nhandles + 1
    /\ hs' = [hs EXCEPT ![nhandles'] = MediaStreamInit(th[t].url, NoSize, 0)]
    /\ STREAM' = [STREAM EXCEPT ![th[t].url] = nhandles']
    /\ th' = [th EXCEPT ![t].h = nhandles', ![t].pc = "cap_check"]
    /\ UNCHANGED <<present, now, calls, http>>

\* stream.pause() on the value STREAM.get(url, None) gave: None has no
\* pause and the call raises AttributeError
StreamPause(stream) ==
    IF stream = NoHandle
    THEN [raised |-> TRUE, hs |-> hs]
    ELSE [raised |-> FALSE, hs |-> [hs EXCEPT ![stream] = Pause(@)]]

\* pause(url), lines 206-208: stream.pause() is called when stream is None
SMPauseResult(url) ==
    LET stream == STREAM[url]
    IN  IF stream = NoHandle THEN StreamPause(stream)
        ELSE [raised |-> FALSE, hs |-> hs]

SMPause(t, url) ==
    /\ Call(t, url, STREAM[url], "idle", SMPauseResult(url).raised)
    /\ hs' = SMPauseResult(url).hs
    /\ UNCHANGED <<STREAM, nhandles, present, now, http>>

----------------------------------------------------------------------------
(* Calls on a MediaStream object itself *)

HCapture(t, h) ==
    /\ hs[h].lpc # "none"
    /\ Call(t, hs[h].url, h, "cap_check", FALSE)
    /\ UNCHANGED <<STREAM, hs, nhandles, present, now, http>>

HPause(t, h) ==
    /\ hs[h].lpc # "none"
    /\ Call(t, hs[h].url, h, "idle", FALSE)
    /\ hs' = [hs EXCEPT ![h] = Pause(@)]
    /\ UNCHANGED <<STREAM, nhandles, present, now, http>>

HRelease(t, h) ==
    /\ hs[h].lpc # "none"
    /\ Call(t, hs[h].url, h, "idle", FALSE)
    /\ hs' = [hs EXCEPT ![h] = Release(@)]
    /\ UNCHANGED <<STREAM, nhandles, present, now, http>>

\* the sizes a caller passes
SizeInputs ==
    {NoSize, <<1, 2>>, <<2, 1>>, <<0, 1>>, <<2, 0>>, <<MaxDim, 1>>,
     <<MaxDim + 1, 2>>, <<-1, 1>>}

HSize(t, h, size) ==
    /\ hs[h].lpc # "none"
    /\ Call(t, hs[h].url, h, "idle", SizeSetRaises(size))
    /\ hs' = [hs EXCEPT ![h] = SizeSet(@, size)]
    /\ UNCHANGED <<STREAM, nhandles, present, now, http>>

----------------------------------------------------------------------------
(* The world: time passes, sources come and go *)

Tick ==
    /\ now < MaxTime
    /\ now' = now + 1
    /\ UNCHANGED <<STREAM, hs, nhandles, th, present, calls, http>>

Sources == {UrlInt(0), UrlFile}

Plug(rurl) ==
    /\ rurl \notin present
    /\ present' = present \cup {rurl}
    /\ UNCHANGED <<STREAM, hs, nhandles, th, now, calls, http>>

Unplug(rurl) ==
    /\ rurl \in present
    /\ present' = present \ {rurl}
    /\ UNCHANGED <<STREAM, hs, nhandles, th, now, calls, http>>

----------------------------------------------------------------------------
(* StreamingServer and StreamingHandler.  A path is the sequence of its    *)
(* characters; what the wfile of a connection received is a sequence of    *)
(* tokens, one per line or body written.                                   *)

Paths == {<<"/", "a">>, <<"/", "A">>, <<"/", "b">>}

\* the names endpoints are registered under
Names == {<<"/", "a">>, <<"/", "A">>}

Conns == {1, 2}

NoEntry == 0

NoEndpoints == [p \in Paths |-> NoEntry]

\* str.lower()
LowerChar(c) == IF c = "A" THEN "a" ELSE IF c = "B" THEN "b" ELSE c

Lower(path) == [i \in DOMAIN path |-> LowerChar(path[i])]

Tok(k, n) == [k |-> k, n |-> n]

\* what send_response(200), send_header() and end_headers() flush,
\* lines 220-222
ResponseHeader ==
    <<Tok("HTTP/1.0 200 OK", 0), Tok("Server", 0), Tok("Date", 0),
      Tok("Content-Type: multipart/x-mixed-replace; boundary=frame", 0),
      Tok("", 0)>>

\* cv2.imencode('.jpg', frame): an array of len bytes
Imencode(frame) == [len |-> frame.rows * frame.cols + 1, img |-> frame.img]

\* ndarray.tobytes()
ToBytes(jpeg) == [len |-> jpeg.len, img |-> jpeg.img]

\* a part whose headers go out before its boundary
PartHeadersFirst(jpeg) ==
    <<Tok("Content-Type: image/jpeg", 0), Tok("Content-Length", jpeg.len),
      Tok("", 0), Tok("--frame", 0),
      Tok("bytes", ToBytes(jpeg).len), Tok("\r\n", 0)>>

\* lines 228-233: four writes, the second the three header lines
Part(jpeg) ==
    <<Tok("--frame", 0),
      Tok("Content-Type: image/jpeg", 0), Tok("Content-Length", jpeg.len),
      Tok("", 0),
      Tok("bytes", ToBytes(jpeg).len),
      Tok("\r\n", 0)>>

\* the tokens out after the first f writes of a part
Written(f) == CASE f = 0 -> 0 [] f = 1 -> 1 [] f = 2 -> 4 [] f = 3 -> 5
                [] OTHER -> 6

NoConn == [pc |-> "none", path |-> <<"/", "a">>, data |-> NoEntry,
           wfile |-> <<>>, parts |-> 0]

\* a handler that answers a missing endpoint with a status line
DoGETNotFound(conn, path, ok) ==
    LET data == OUT[Lower(path)]
    IN  IF data = NoEntry
        THEN [conn EXCEPT !.pc = "closed", !.path = path,
                          !.wfile = <<Tok("HTTP/1.0 404 Not Found", 0)>>]
        ELSE [conn EXCEPT !.pc = IF ok THEN "streaming" ELSE "closed",
                          !.path = path, !.data = data,
                          !.wfile = IF ok THEN ResponseHeader ELSE <<>>]

\* do_GET up to the loop, lines 216-222; ok: the write of the headers
\* succeeds (it is outside the try, so a failure ends the handler)
DoGET(conn, path, ok) ==
    LET key == Lower(path)
        data == OUT[key]
    IN  IF data = NoEntry
        THEN [conn EXCEPT !.pc = "closed", !.path = path]
        ELSE [conn EXCEPT !.pc = IF ok THEN "streaming" ELSE "closed",
                          !.path = path, !.data = data,
                          !.wfile = IF ok THEN ResponseHeader ELSE <<>>]

\* a handler whose loop goes on after a write that raised
DoPartKeepsGoing(conn, f) ==
    LET frame == entries[conn.data].b
    IN  IF frame.null THEN conn
        ELSE [conn EXCEPT
                !.wfile = @ \o SubSeq(Part(Imencode(frame)), 1, Written(f)),
                !.parts = IF f = 4 THEN @ + 1 ELSE @]

\* one iteration of the loop of do_GET, lines 224-236; f writes succeed,
\* the next one raises (f = 0: imencode or the first write raises)
DoPart(conn, f) ==
    LET frame == entries[conn.data].b
    IN  IF frame.null THEN conn
        ELSE [conn EXCEPT
                !.wfile = @ \o SubSeq(Part(Imencode(frame)), 1, Written(f)),
                !.parts = IF f = 4 THEN @ + 1 ELSE @,
                !.pc = IF f = 4 THEN "streaming" ELSE "closed"]

\* a server that handles a request in the accept loop's own thread
GetAfterPrevious(c, path, ok) ==
    /\ conns[c].pc = "none"
    /\ \A d \in Conns : d < c => conns[d].pc = "closed"
    /\ conns' = [conns EXCEPT ![c] = DoGET(@, path, ok)]
    /\ UNCHANGED <<STREAM, hs, nhandles, th, present, now, calls, OUT, entries,
                   capt>>

\* handle_request() accepts the connections one at a time, lines 260-262,
\* and ThreadingHTTPServer, line 258, starts a thread for each
Get(c, path, ok) ==
    /\ conns[c].pc = "none"
    /\ \A d \in Conns : d < c => conns[d].pc # "none"
    /\ conns' = [conns EXCEPT ![c] = DoGET(@, path, ok)]
    /\ UNCHANGED <<STREAM, hs, nhandles, th, present, now, calls, OUT, entries,
                   capt>>

StreamPart(c, f) ==
    /\ conns[c].pc = "streaming"
    /\ conns[c].parts < MaxParts
    /\ conns' = [conns EXCEPT ![c] = DoPart(@, f)]
    /\ UNCHANGED <<STREAM, hs, nhandles, th, present, now, calls, OUT, entries,
                   capt>>

\* endpointAdd, lines 241-243; name records the key the dict was stored under
EndpointAdd(name, h) ==
    /\ hs[h].lpc # "none"
    /\ Len(entries) < Cardinality(Names)
    /\ entries' = Append(entries, [name |-> name, stream |-> h, b |-> NullFrame])
    /\ OUT' = [OUT EXCEPT ![name] = Len(entries) + 1]
    /\ UNCHANGED <<STREAM, hs, nhandles, th, present, now, calls, capt, conns>>

\* list(OUT.keys()), line 248: the keys in the order of their first insertion
RECURSIVE KeysFrom(_, _)
KeysFrom(i, seen) ==
    IF i > Len(entries) THEN <<>>
    ELSE IF entries[i].name \in seen THEN KeysFrom(i + 1, seen)
    ELSE <<entries[i].name>> \o KeysFrom(i + 1, seen \cup {entries[i].name})

Keys == KeysFrom(1, {})

CaptIdle == [pc |-> "list", who |-> <<>>, frame |-> NullFrame]

\* a capture thread that never stores the frame it read
CaptStoreNothing(e, frame) == e

\* line 251, OUT[w]['b'] = frame
CaptStore(e, frame) == [e EXCEPT !.b = frame]

\* line 248, who = list(OUT.keys()); an empty list ends the for loop at once
CaptList ==
    /\ capt.pc = "list"
    /\ capt' = [capt EXCEPT !.who = Keys,
                            !.pc = IF Keys = <<>> THEN "list" ELSE "read"]
    /\ UNCHANGED <<STREAM, hs, nhandles, th, present, now, calls, OUT, entries,
                   conns>>

\* line 250, _, frame = OUT[w]['_'].frame
CaptRead ==
    /\ capt.pc = "read"
    /\ capt' = [capt EXCEPT
                  !.frame = FrameOf(hs[entries[OUT[Head(capt.who)]].stream])[2],
                  !.pc = "write"]
    /\ UNCHANGED <<STREAM, hs, nhandles, th, present, now, calls, OUT, entries,
                   conns>>

\* line 251, then the next key of the for loop or the next while iteration
CaptWrite ==
    /\ capt.pc = "write"
    /\ entries' = [entries EXCEPT
                     ![OUT[Head(capt.who)]] = CaptStore(@, capt.frame)]
    /\ capt' = [capt EXCEPT
                  !.who = Tail(capt.who),
                  !.pc = IF Tail(capt.who) = <<>> THEN "list" ELSE "read"]
    /\ UNCHANGED <<STREAM, hs, nhandles, th, present, now, calls, OUT, conns>>

CaptStep == CaptList \/ CaptRead \/ CaptWrite

HttpIdle ==
    /\ OUT = NoEndpoints
    /\ entries = <<>>
    /\ capt = CaptIdle
    /\ conns = [c \in Conns |-> NoConn]

----------------------------------------------------------------------------
(* The registry and its callers.  Init is the state StreamManager()        *)
(* leaves: devicescan(False) has registered one MediaStream per index.     *)

ScanIndex(url) == CHOOSE i \in 0..(ScanRange - 1) : UrlInt(i) = url

CallUrls == {UrlInt(0), UrlInt(1), UrlStr0, UrlFile}

Init ==
    /\ STREAM = [u \in Urls |-> IF u \in ScanUrls THEN ScanIndex(u) + 1
                                ELSE NoHandle]
    /\ hs = [h \in Handles |-> IF h <= ScanRange
                               THEN MediaStreamInit(UrlInt(h - 1), NoSize, 0)
                               ELSE Unborn]
    /\ nhandles = ScanRange
    /\ th = [t \in Threads |-> Idle]
    /\ present \in SUBSET Sources
    /\ now = 0
    /\ calls = 0
    /\ HttpIdle

Next ==
    \/ \E t \in Threads, u \in CallUrls : SMCapture(t, u)
    \/ \E t \in Threads : SMCaptureCreate(t)
    \/ \E t \in Threads : CaptureCheck(t)
    \/ \E t \in Threads : CaptureTry(t)
    \/ \E t \in Threads : CaptureDone(t)
    \/ \E t \in Threads, u \in CallUrls : SMPause(t, u)
    \/ \E h \in Handles : Run(h)
    \/ \E h \in Handles : RunResult(h)

Spec == Init /\ [][Next]_vars

----------------------------------------------------------------------------
(* One MediaStream and its callers.  Init is the state its constructor     *)
(* leaves.                                                                 *)

InitSizes == {NoSize, <<2, 1>>, <<1, 2>>}

HandleInit ==
    /\ STREAM = [u \in Urls |-> NoHandle]
    /\ \E u \in Sources, size \in InitSizes, b \in {CapAny, CapAlt} :
        /\ hs = [h \in Handles |-> IF h = 1 THEN MediaStreamInit(u, size, b)
                                   ELSE Unborn]
        /\ present \in SUBSET {u}
    /\ nhandles = 1
    /\ th = [t \in Threads |-> Idle]
    /\ now = 0
    /\ calls = 0
    /\ HttpIdle

HandleNext ==
    \/ HCapture(1, 1)
    \/ CaptureCheck(1)
    \/ CaptureTry(1)
    \/ CaptureDone(1)
    \/ HPause(1, 1)
    \/ HRelease(1, 1)
    \/ \E size \in SizeInputs : HSize(1, 1, size)
    \/ Run(1)
    \/ RunResult(1)
    \/ Tick
    \/ Plug(hs[1].url)
    \/ Unplug(hs[1].url)

HandleSpec == HandleInit /\ [][HandleNext]_vars

----------------------------------------------------------------------------
(* StreamManager: frame(), active and devicescan() *)

\* the black frame frame() gives for an url that is not registered
DefaultFrame == Image(DefaultDim, DefaultDim, Black)

\* a frame(url) that gives None for an url that is not registered
SMFrameResultNone(url) ==
    IF STREAM[url] = NoHandle THEN NoOut ELSE FrameOf(hs[STREAM[url]])

\* frame(url), lines 195-198
SMFrameResult(url) ==
    LET stream == STREAM[url]
    IN  IF stream = NoHandle THEN <<FALSE, DefaultFrame>>
        ELSE FrameOf(hs[stream])

SMFrame(t, url) ==
    /\ th[t].pc = "idle"
    /\ calls < MaxCalls
    /\ calls' = calls + 1
    /\ th' = [th EXCEPT ![t] = [Idle EXCEPT !.url = url,
                                            !.out = SMFrameResult(url)]]
    /\ UNCHANGED <<STREAM, hs, nhandles, present, now, http>>

\* active, lines 191-193
Active == {h \in Handles : (\E u \in Urls : STREAM[u] = h) /\ IsOpen(hs[h])}

NoStreams == [u \in Urls |-> NoHandle]

\* a scan that goes on after an index that does not open
ScanBreaksNever(r) == FALSE

\* devicescan, line 169: the probe of index i ends the scan
ScanBreaks(r) == ~IsOpen(r)

\* devicescan, lines 165-171, from index i on.  st holds the MediaStream
\* objects, the new registry and the number of objects constructed
RECURSIVE ScanLoop(_, _, _)
ScanLoop(st, i, capture) ==
    IF i >= ScanRange THEN st
    ELSE LET h == st.n + 1
             made == MediaStreamInit(UrlInt(i), NoSize, 0)
             stream == IF capture THEN Capture(made) ELSE made
         IN  IF capture /\ ScanBreaks(stream)
             THEN [st EXCEPT !.hs[h] = stream, !.n = h]
             ELSE ScanLoop([hs |-> [st.hs EXCEPT ![h] = stream],
                            STREAM |-> [st.STREAM EXCEPT ![UrlInt(i)] = h],
                            n |-> h], i + 1, capture)

\* a scan that leaves the probed devices open
ScanReleaseNot(st, capture) == st.hs

\* devicescan, lines 173-175
ScanRelease(st, capture) ==
    IF capture
    THEN [h \in Handles |->
            IF \E u \in Urls : st.STREAM[u] = h THEN Release(st.hs[h])
            ELSE st.hs[h]]
    ELSE st.hs

\* devicescan, lines 159-175.  The del at line 161 unbinds the loop's own
\* name and line 162 drops the dict: each MediaStream stays referenced by
\* its running thread, __del__ is not called and the objects are untouched
DeviceScanResult(capture) ==
    LET st == ScanLoop([hs |-> hs, STREAM |-> NoStreams, n |-> nhandles],
                       0, capture)
    IN  [st EXCEPT !.hs = ScanRelease(st, capture)]

DeviceScan(t, capture) ==
    /\ nhandles + ScanRange <= ScanRange * (1 + MaxScans) + MaxNew
    /\ Call(t, UrlInt(0), NoHandle, "idle", FALSE)
    /\ hs' = DeviceScanResult(capture).hs
    /\ STREAM' = DeviceScanResult(capture).STREAM
    /\ nhandles' = DeviceScanResult(capture).n
    /\ UNCHANGED <<present, now, http>>

----------------------------------------------------------------------------
(* The registry with one caller, whose calls follow one another *)

Cameras == {UrlInt(0), UrlInt(1)}

\* the registry StreamManager() leaves, with the sources of srcs that exist
RegistryInit(srcs) ==
    /\ STREAM = [u \in Urls |-> IF u \in ScanUrls THEN ScanIndex(u) + 1
                                ELSE NoHandle]
    /\ hs = [h \in Handles |-> IF h <= ScanRange
                               THEN MediaStreamInit(UrlInt(h - 1), NoSize, 0)
                               ELSE Unborn]
    /\ nhandles = ScanRange
    /\ th = [t \in Threads |-> Idle]
    /\ present \in SUBSET srcs
    /\ now = 0
    /\ calls = 0
    /\ HttpIdle

\* the urls the caller passes: a scanned index, the same index as a
\* string, a file
SeqUrls == {UrlInt(0), UrlStr0, UrlFile}

SeqInit == RegistryInit(Sources)

SeqNext ==
    \/ \E u \in SeqUrls : SMCapture(1, u)
    \/ SMCaptureCreate(1)
    \/ CaptureCheck(1)
    \/ CaptureTry(1)
    \/ CaptureDone(1)
    \/ \E u \in SeqUrls : SMPause(1, u)
    \/ \E u \in SeqUrls : SMFrame(1, u)
    \/ \E h \in Handles : Run(h)
    \/ \E h \in Handles : RunResult(h)
    \/ Plug(UrlInt(0))
    \/ Unplug(UrlInt(0))

SeqSpec == SeqInit /\ [][SeqNext]_vars

----------------------------------------------------------------------------
(* The registry rescanned: devicescan() and capture() of camera 0, called  *)
(* one after another, while time passes and with no other camera.  The     *)
(* loops that step are those of the registered MediaStream objects: the    *)
(* loop of an object that left the registry goes on, but no other object   *)
(* depends on it.                                                          *)

InRegistry(h) == \E u \in Urls : STREAM[u] = h

ScanInit == RegistryInit({UrlInt(0)})

ScanNext ==
    \/ \E capture \in BOOLEAN : DeviceScan(1, capture)
    \/ SMCapture(1, UrlInt(0))
    \/ SMCaptureCreate(1)
    \/ CaptureCheck(1)
    \/ CaptureTry(1)
    \/ CaptureDone(1)
    \/ \E h \in Handles : InRegistry(h) /\ Run(h)
    \/ \E h \in Handles : InRegistry(h) /\ RunResult(h)
    \/ Tick

ScanSpec == ScanInit /\ [][ScanNext]_vars

----------------------------------------------------------------------------
(* The registry probed: devicescan() and capture() of camera 0 with any of *)
(* the cameras 0 and 1 plugged in.                                         *)

ProbeInit == RegistryInit(Cameras)

ProbeNext ==
    \/ \E capture \in BOOLEAN : DeviceScan(1, capture)
    \/ SMCapture(1, UrlInt(0))
    \/ SMCaptureCreate(1)
    \/ CaptureCheck(1)
    \/ CaptureTry(1)
    \/ CaptureDone(1)
    \/ \E h \in Handles : InRegistry(h) /\ Run(h)
    \/ \E h \in Handles : InRegistry(h) /\ RunResult(h)

ProbeSpec == ProbeInit /\ [][ProbeNext]_vars

----------------------------------------------------------------------------
(* One MediaStream constructed with or without an fps, captured, released  *)
(* and paused by one caller.                                               *)

FpsInputs == {None, 1, CameraFps, DefaultFps}

FpsInit ==
    /\ STREAM = NoStreams
    /\ \E u \in Sources, fps \in FpsInputs :
        /\ hs = [h \in Handles |->
                    IF h = 1 THEN MediaStreamInitFps(u, NoSize, fps, 0)
                    ELSE Unborn]
        /\ present \in SUBSET {u}
    /\ nhandles = 1
    /\ th = [t \in Threads |-> Idle]
    /\ now = 0
    /\ calls = 0
    /\ HttpIdle

FpsNext ==
    \/ HCapture(1, 1)
    \/ CaptureCheck(1)
    \/ CaptureTry(1)
    \/ CaptureDone(1)
    \/ HPause(1, 1)
    \/ HRelease(1, 1)
    \/ Run(1)
    \/ RunResult(1)
    \/ Plug(hs[1].url)
    \/ Unplug(hs[1].url)

FpsSpec == FpsInit /\ [][FpsNext]_vars

----------------------------------------------------------------------------
(* The streaming server: two MediaStream objects, as many endpoint         *)
(* registrations as there are names, two HTTP connections.                 *)

HttpInit ==
    /\ STREAM = NoStreams
    /\ hs = [h \in Handles |->
                IF h = 1 THEN MediaStreamInit(UrlInt(0), NoSize, 0)
                ELSE IF h = 2 THEN MediaStreamInit(UrlFile, <<1, 2>>, 0)
                ELSE Unborn]
    /\ nhandles = 2
    /\ th = [t \in Threads |-> Idle]
    /\ present = {}
    /\ now = 0
    /\ calls = 0
    /\ HttpIdle

HttpNext ==
    \/ \E name \in Names, h \in {1, 2} : EndpointAdd(name, h)
    \/ CaptList
    \/ CaptRead
    \/ CaptWrite
    \/ \E c \in Conns, path \in Paths, ok \in BOOLEAN : Get(c, path, ok)
    \/ \E c \in Conns, f \in 0..4 : StreamPart(c, f)

HttpSpec == HttpInit /\ [][HttpNext]_vars

(* The capture thread under fair scheduling: endpoints are added and
   overwritten, the size setter replaces the frames the handles hold, one
   client connects and streams, and the capture thread, which never blocks
   and never ends, is scheduled again and again. *)
LiveSizes == {<<1, 2>>, <<2, 1>>}

LiveNext ==
    \/ \E name \in Names, h \in {1, 2} : EndpointAdd(name, h)
    \/ CaptList
    \/ CaptRead
    \/ CaptWrite
    \/ \E size \in LiveSizes : HSize(1, 1, size)
    \/ Get(1, <<"/", "a">>, TRUE)
    \/ StreamPart(1, 4)

LiveSpec == HttpInit /\ [][LiveNext]_vars /\ WF_vars(CaptStep)

----------------------------------------------------------------------------
(* Properties *)

Registered(url) == STREAM[url] # NoHandle

RECURSIVE OpensUpTo(_, _)
OpensUpTo(rurl, h) ==
    IF h = 0 THEN 0
    ELSE OpensUpTo(rurl, h - 1)
         + (IF hs[h].lpc # "none" /\ hs[h].url = rurl THEN hs[h].opens ELSE 0)

\* capture objects opened on source rurl, over all MediaStream objects
TotalOpens(rurl) == OpensUpTo(rurl, ScanRange + MaxNew)

\* C1: StreamManager.pause(url) with an url that is not registered raises
\* nothing and changes neither the registry nor any MediaStream.
C1_PauseMissingIsNoop ==
    [][\A t \in Threads, u \in CallUrls :
        (SMPause(t, u) /\ ~Registered(u))
            => (~th'[t].raised /\ hs' = hs /\ STREAM' = STREAM)]_vars

\* C2: StreamManager.pause(url) with a registered url sets the paused flag
\* of the MediaStream registered under it.
C2_PauseRegisteredPauses ==
    [][\A t \in Threads, u \in CallUrls :
        (SMPause(t, u) /\ Registered(u)) => hs'[STREAM[u]].paused]_vars

\* C3: when two threads have each made one StreamManager.capture(url) call
\* with the same url of a source that can be opened, both calls returned the
\* same MediaStream and one capture object was opened on the source.
C3_ConcurrentCaptureShares ==
    \A t1, t2 \in Threads :
        ( /\ t1 # t2
          /\ calls = 2
          /\ th[t1].pc = "idle" /\ th[t2].pc = "idle"
          /\ th[t1].ret # NoHandle /\ th[t2].ret # NoHandle
          /\ th[t1].url = th[t2].url
          /\ IntOf(th[t1].url) \in present )
        => ( /\ th[t1].ret = th[t2].ret
             /\ TotalOpens(IntOf(th[t1].url)) = 1 )

\* C4: the registry holds at most one MediaStream per resolved url: two
\* registered urls that resolve to the same source ("0" and 0) are
\* registered to the same MediaStream.
C4_OneHandlePerSource ==
    \A u1, u2 \in Urls :
        (Registered(u1) /\ Registered(u2) /\ IntOf(u1) = IntOf(u2))
            => STREAM[u1] = STREAM[u2]

\* C5: MediaStream.capture() on a source that is already open opens no
\* capture object, keeps the one in place and only clears the paused flag,
\* so a second call in a row changes nothing.
C5_CaptureOpenIsIdempotent ==
    [][\A t \in Threads :
        ( /\ th[t].pc = "cap_check"
          /\ th'[t].pc # "cap_check"
          /\ IsOpen(hs[th[t].h]) )
        => ( /\ hs' = [hs EXCEPT ![th[t].h].paused = FALSE]
             /\ th'[t].pc = "idle"
             /\ th'[t].ret = th[t].h
             /\ (~hs[th[t].h].paused => hs' = hs) )]_vars

C5_Witness ==
    /\ th[1].pc = "idle"
    /\ th[1].how = "early"
    /\ hs[1].opens = 1
    /\ IsOpen(hs[1])
    /\ ~hs[1].paused

NoBackendOpens(r) ==
    \A i \in 1..Len(r.backend) : ~CanOpen(r.url, r.backend[i])

\* C6: when no backend of the list opens the source, capture() returns
\* without raising, isOpen is false and one CAPTURE FAIL line is logged.
C6_OpenFailureIsLoggedOnce ==
    [][\A t \in Threads :
        ( /\ th[t].pc = "cap_open"
          /\ th'[t].pc # "cap_open"
          /\ NoBackendOpens(hs[th[t].h]) )
        => ( /\ th'[t].pc = "idle"
             /\ ~th'[t].raised
             /\ ~IsOpen(hs'[th[t].h])
             /\ hs'[th[t].h].fails = hs[th[t].h].fails + 1
             /\ hs'[th[t].h].opens = hs[th[t].h].opens )]_vars

C6_Witness ==
    /\ th[1].pc = "idle"
    /\ th[1].how = "fail"
    /\ ~th[1].raised
    /\ hs[1].fails = 1
    /\ ~IsOpen(hs[1])

\* C7: an iteration of the polling loop whose read failed and that finds
\* the source of an unpaused MediaStream closed, more than 2 seconds after
\* the first such iteration of the run, releases it and makes one reopen
\* attempt.
C7_StallReopens ==
    [][\A h \in Handles :
        ( /\ hs[h].lpc = "proc"
          /\ hs'[h].lpc = "top"
          /\ ~hs[h].paused
          /\ ~hs[h].ret
          /\ ~hs[h].source.opened
          /\ hs[h].stallSince # None
          /\ now - hs[h].stallSince > StallLimit )
        => hs'[h].attempts = hs[h].attempts + 1]_vars

\* C8: the frame of every MediaStream is an image, never None.
C8_FrameNeverNull ==
    \A h \in Handles : hs[h].lpc # "none" => ~FrameOf(hs[h])[2].null

C8_Witness ==
    /\ hs[1].lpc = "top"
    /\ hs[1].source.obj
    /\ ~hs[1].source.opened
    /\ ~hs[1].paused
    /\ ~hs[1].ret
    /\ hs[1].fails > 0
    /\ hs[1].frame.img # Black

\* C9: setting the size to (w, h) with 0 <= w, h <= 8192 leaves the frame
\* with h rows and w columns.
C9_SizeSetsShape ==
    [][\A size \in SizeInputs :
        ( /\ size # NoSize
          /\ 0 <= size[1] /\ size[1] <= MaxDim
          /\ 0 <= size[2] /\ size[2] <= MaxDim
          /\ HSize(1, 1, size) )
        => ( /\ hs'[1].frame.rows = size[2]
             /\ hs'[1].frame.cols = size[1] )]_vars

\* C10: for a file, the iteration whose read failed with the position at
\* the frame count seeks the capture back to 0 and leaves it open, starts
\* no stall timer and makes no reopen attempt; and a read that succeeds at
\* position 0 decodes frame 0.
C10_EndOfStreamRewinds ==
    [][\A h \in Handles :
        /\ ( /\ hs[h].lpc = "proc"
             /\ hs'[h].lpc # "proc"
             /\ IsFile(hs[h].url)
             /\ hs[h].source.opened
             /\ ~hs[h].ret
             /\ hs[h].source.pos >= FrameCount )
           => ( /\ hs'[h].source = [obj |-> TRUE, opened |-> TRUE, pos |-> 0]
                /\ hs'[h].lpc = "top"
                /\ hs'[h].timeout = None
                /\ hs'[h].stallSince = None
                /\ hs'[h].attempts = hs[h].attempts
                /\ hs'[h].opens = hs[h].opens
                /\ hs'[h].fails = hs[h].fails )
        /\ ( /\ hs[h].lpc = "top"
             /\ hs'[h].lpc = "proc"
             /\ IsFile(hs[h].url)
             /\ hs[h].source.opened
             /\ hs[h].source.pos = 0
             /\ hs'[h].ret )
           => hs'[h].newframe.img = 0]_vars

C10_Witness ==
    /\ calls = 1
    /\ IsFile(hs[1].url)
    /\ hs[1].lpc = "top"
    /\ hs[1].source.opened
    /\ hs[1].source.pos = 0
    /\ ~hs[1].ret
    /\ hs[1].frame.img = FrameCount - 1

InCapture(t) == th[t].pc \in {"cap_check", "cap_open", "cap_finish"}

\* C11: with one caller, a registered url stays registered to the same
\* MediaStream, a MediaStream is constructed only by a capture(url) of an
\* url that is not registered, and every capture(url) returns the
\* MediaStream registered under url, open and unpaused when the source can
\* be opened.
C11_CaptureReturnsTheHandle ==
    [][/\ \A u \in Urls : Registered(u) => STREAM'[u] = STREAM[u]
       /\ nhandles' # nhandles
            => (~Registered(th[1].url) /\ STREAM'[th[1].url] = nhandles')
       /\ (InCapture(1) /\ th'[1].pc = "idle")
            => ( /\ th'[1].ret = STREAM'[th[1].url]
                 /\ IntOf(th[1].url) \in present
                      => ( /\ IsOpen(hs'[th'[1].ret])
                           /\ ~hs'[th'[1].ret].paused ) )]_vars

C11_Witness ==
    /\ calls = 2
    /\ th[1].pc = "idle"
    /\ th[1].url = UrlFile
    /\ th[1].how = "early"
    /\ nhandles = ScanRange + 1
    /\ th[1].ret = ScanRange + 1
    /\ IsOpen(hs[th[1].ret])
    /\ ~hs[th[1].ret].paused

\* C12: after devicescan() no MediaStream that was registered before the
\* call holds an open capture.
C12_RescanReleasesAll ==
    [][\A capture \in BOOLEAN :
        DeviceScan(1, capture)
            => \A u \in Urls :
                 Registered(u) => ~IsOpen(hs'[STREAM[u]])]_vars

\* the first index devicescan(True) cannot open, ScanRange when all open
FirstAbsent ==
    CHOOSE k \in 0..ScanRange :
        /\ k = ScanRange \/ UrlInt(k) \notin present
        /\ \A j \in 0..(k - 1) : UrlInt(j) \in present

\* C13: devicescan(True) constructs and probes the indices from 0 up to
\* the first that does not open and no higher one, registers the indices
\* below it in order and not the failing one.
C13_ProbeStopsAtFirstFailure ==
    [][DeviceScan(1, TRUE)
        => LET k == FirstAbsent
               made == IF k < ScanRange THEN k + 1 ELSE k
           IN  /\ nhandles' = nhandles + made
               /\ \A h \in Handles : h > nhandles' => hs'[h].lpc = "none"
               /\ \A i \in 0..(ScanRange - 1) :
                    STREAM'[UrlInt(i)] =
                        IF i < k THEN nhandles + i + 1 ELSE NoHandle
               /\ \A u \in Urls \ ScanUrls : STREAM'[u] = NoHandle
               /\ \A i \in 0..(made - 1) :
                    /\ hs'[nhandles + i + 1].url = UrlInt(i)
                    /\ hs'[nhandles + i + 1].opens = (IF i < k THEN 1 ELSE 0)
                    /\ hs'[nhandles + i + 1].fails = (IF i < k THEN 0 ELSE 1)]_vars

C13_Witness ==
    /\ calls = 1
    /\ present = {UrlInt(0)}
    /\ nhandles = ScanRange + 2
    /\ STREAM[UrlInt(0)] = ScanRange + 1
    /\ STREAM[UrlInt(1)] = NoHandle
    /\ hs[ScanRange + 2].fails = 1

\* C14: devicescan(True) leaves no registered MediaStream open, and the
\* active view, once empty, stays empty in every step but the open attempt
\* of a capture() call.
C14_ProbeLeavesNothingOpen ==
    [][/\ DeviceScan(1, TRUE) => Active' = {}
       /\ (Active = {} /\ th[1].pc # "cap_open") => Active' = {}]_vars

C14_Witness ==
    /\ calls = 1
    /\ Active = {}
    /\ \E h \in Handles :
        /\ h > ScanRange
        /\ STREAM[UrlInt(0)] = h
        /\ hs[h].opens = 1
        /\ ~hs[h].paused
        /\ hs[h].lpc = "top"
        /\ hs[h].stallSince # None
        /\ now - hs[h].stallSince > StallLimit
        /\ hs[h].timeout = now

\* C15: StreamManager.frame(url) for an url that is not registered returns
\* (False, a black frame of the default size), constructs no MediaStream
\* and leaves the registry and every MediaStream as they were.
C15_FrameOfMissingIsDefault ==
    [][\A u \in SeqUrls :
        (SMFrame(1, u) /\ ~Registered(u))
            => ( /\ th'[1].out =
                      <<FALSE, [null |-> FALSE, rows |-> DefaultDim,
                                cols |-> DefaultDim, img |-> Black]>>
                 /\ ~th'[1].raised
                 /\ STREAM' = STREAM
                 /\ hs' = hs
                 /\ nhandles' = nhandles )]_vars

C15_Witness ==
    /\ th[1].pc = "idle"
    /\ th[1].url = UrlStr0
    /\ ~Registered(UrlStr0)
    /\ th[1].out[2].rows = DefaultDim
    /\ th[1].out[2].img = Black
    /\ ~th[1].out[2].null
    /\ ~th[1].out[1]

\* C19: a failing iteration on a closed capture that follows a failing
\* iteration of the same run leaves the stall timer at the time the run
\* began.
C19_StallTimerKept ==
    [][\A h \in Handles :
        ( /\ RunResult(h)
          /\ ~hs[h].paused
          /\ ~hs[h].ret
          /\ hs[h].source.obj
          /\ ~hs[h].source.opened
          /\ hs[h].stallSince # None
          /\ hs'[h].attempts = hs[h].attempts )
        => hs'[h].timeout = hs[h].stallSince]_vars

\* C20 as stated: while the paused flag is set no step of the loop reads
\* or changes the frame or the success flag, and the thread keeps running.
C20_PausedLoopTouchesNothing ==
    [][\A h \in Handles :
        ((Run(h) \/ RunResult(h)) /\ hs[h].paused)
            => ( /\ hs'[h].frame = hs[h].frame
                 /\ hs'[h].ret = hs[h].ret
                 /\ hs'[h].source = hs[h].source
                 /\ hs'[h].lpc \in {"top", "proc"} )]_vars

\* C20, amended: a MediaStream is paused from its construction until its
\* first successful capture(), and an iteration of the loop that finds the
\* paused flag set reads nothing, leaves the frame, the success flag and
\* the capture as they were and goes on to the next iteration.
C20_PausedIterationIdles ==
    /\ \A h \in Handles : hs[h].lpc # "none" => hs[h].paused
    /\ [][\A h \in Handles :
            /\ (hs'[h].lpc # "none" /\ hs'[h].opens = 0) => hs'[h].paused
            /\ (Run(h) /\ hs[h].paused)
                 => ( /\ hs'[h].frame = hs[h].frame
                      /\ hs'[h].ret = hs[h].ret
                      /\ hs'[h].source = hs[h].source
                      /\ hs'[h].newframe = hs[h].newframe
                      /\ hs'[h].lpc = "top" )]_vars

C20_Witness ==
    /\ calls >= 2
    /\ th[1].pc = "idle"
    /\ hs[1].opens = 1
    /\ hs[1].paused
    /\ hs[1].ret
    /\ hs[1].frame.img # Black
    /\ hs[1].source.opened
    /\ hs[1].timeout = None
    /\ hs[1].lpc = "top"

\* an endpoint is registered under a name that is path but for letter case
Mapped(path) ==
    \E n \in Paths : OUT[n] # NoEntry /\ Lower(n) = Lower(path)

\* C16: a GET of a path no endpoint is registered under writes nothing and
\* ends the connection, which stays as it is from then on.
C16_UnmappedGetWritesNothing ==
    [][\A c \in Conns :
        /\ \A path \in Paths, ok \in BOOLEAN :
            (Get(c, path, ok) /\ ~Mapped(path))
                => (conns'[c].wfile = <<>> /\ conns'[c].pc = "closed")
        /\ conns[c].pc = "closed" => conns'[c] = conns[c]]_vars

C16_Witness ==
    /\ entries # <<>>
    /\ OUT[<<"/", "a">>] # NoEntry
    /\ conns[1].pc = "closed"
    /\ conns[1].path = <<"/", "b">>
    /\ conns[1].data = NoEntry
    /\ conns[1].wfile = <<>>

\* C17: a GET of a path that is a registered name but for letter case, its
\* client reading, is answered with the 200 status and the multipart
\* header and streams the entry registered under that name.
C17_LookupIgnoresCase ==
    [][\A c \in Conns, path \in Paths :
        (Get(c, path, TRUE) /\ Mapped(path))
            => ( /\ conns'[c].pc = "streaming"
                 /\ conns'[c].wfile[1] = Tok("HTTP/1.0 200 OK", 0)
                 /\ \E n \in Paths : /\ Lower(n) = Lower(path)
                                     /\ OUT[n] # NoEntry
                                     /\ conns'[c].data = OUT[n] )]_vars

\* the part of a payload of n bytes
PartOf(n) ==
    <<Tok("--frame", 0), Tok("Content-Type: image/jpeg", 0),
      Tok("Content-Length", n), Tok("", 0), Tok("bytes", n), Tok("\r\n", 0)>>

\* w is a sequence of whole parts, the last one possibly cut short
RECURSIVE IsParts(_)
IsParts(w) ==
    IF w = <<>> THEN TRUE
    ELSE LET n == IF Len(w) >= 5 THEN w[5].n
                  ELSE IF Len(w) >= 3 THEN w[3].n ELSE 0
         IN  IF Len(w) < 6 THEN w = SubSeq(PartOf(n), 1, Len(w))
             ELSE /\ SubSeq(w, 1, 6) = PartOf(n)
                  /\ IsParts(SubSeq(w, 7, Len(w)))

\* C18: what a connection to a registered path was sent is the 200 status
\* and the multipart header once, then parts, each one the boundary, the
\* image/jpeg Content-Type, the Content-Length of its payload, a blank
\* line, the payload and a line end, in this order and one after another.
C18_ResponseIsHeaderThenParts ==
    \A c \in Conns :
        LET w == conns[c].wfile
        IN  w # <<>>
              => ( /\ Len(w) >= 5
                   /\ w[1] = Tok("HTTP/1.0 200 OK", 0)
                   /\ w[4] = Tok("Content-Type: multipart/x-mixed-replace; boundary=frame", 0)
                   /\ w[5] = Tok("", 0)
                   /\ IsParts(SubSeq(w, 6, Len(w)))
                   /\ conns[c].parts = (Len(w) - 5) \div 6 )

C18_Witness ==
    /\ conns[1].pc = "streaming"
    /\ conns[1].parts = 2
    /\ Len(conns[1].wfile) = 17
    /\ conns[1].wfile[8].n > 1
    /\ conns[1].wfile[8].n = conns[1].wfile[10].n
    /\ conns[2].pc = "streaming"
    /\ conns[2].parts = 1

\* C21: the iteration that stores a decoded frame leaves in the buffer a
\* frame of the configured size, height rows by width columns, and stores
\* a decoded frame that already has this shape as it is.
C21_StoredFrameHasTargetSize ==
    [][\A h \in Handles :
        ( /\ RunResult(h)
          /\ hs[h].ret
          /\ ~hs[h].newframe.null
          /\ hs'[h].lpc = "top" )
        => LET height == hs[h].size[1]
               width == hs[h].size[2]
           IN  /\ hs'[h].frame.rows = height
               /\ hs'[h].frame.cols = width
               /\ (hs[h].newframe.rows = height /\ hs[h].newframe.cols = width)
                    => hs'[h].frame = hs[h].newframe]_vars

\* C22: the capture() that opens the source of a MediaStream constructed
\* without an fps sets its fps to the rate the source reports, and leaves
\* an fps given at construction as it was given.
C22_FpsFromSource ==
    [][\A h \in Handles :
        (CaptureDone(1) /\ th[1].h = h)
            => ( /\ hs[h].fpsarg = None => hs'[h].fps = SrcFps(hs[h])
                 /\ hs[h].fpsarg >= MinFps => hs'[h].fps = hs[h].fpsarg )]_vars

\* the frames a handle of LiveSpec can hold
LiveFrames ==
    {Image(DefaultDim, DefaultDim, Black), Image(1, 2, Black), Image(2, 1, Black)}

CachedFrom(w, e, f) ==
    /\ OUT[w] = e
    /\ hs[entries[e].stream].frame = f

\* C23: under fair scheduling of the capture thread, a frame that the handle
\* of a registered endpoint holds is eventually the cached frame of that
\* endpoint, unless the handle's frame or the endpoint's entry is replaced
\* first; no client and no other endpoint is needed for that.
C23_CacheFollowsHandle ==
    /\ [](\A h \in {1, 2} : hs[h].frame \in LiveFrames)
    /\ \A w \in Names, e \in 1..Cardinality(Names), f \in LiveFrames :
          CachedFrom(w, e, f)
              ~> (OUT[w] # e \/ entries[e].b = f
                    \/ hs[entries[e].stream].frame # f)

\* an endpoint whose cache holds the frame its handle got from the size
\* setter, with no client connected
C23_Witness ==
    /\ \E w \in Names :
          /\ OUT[w] # NoEntry
          /\ entries[OUT[w]].b = hs[entries[OUT[w]].stream].frame
          /\ entries[OUT[w]].b.rows # DefaultDim
          /\ entries[OUT[w]].stream = 1
    /\ \A c \in Conns : conns[c].pc = "none"

\* the accept loop is ready for connection d: all before it were accepted
Accepting(d) ==
    /\ conns[d].pc = "none"
    /\ \A e \in Conns : e < d => conns[e].pc # "none"

\* C24: an iteration of a connection's streaming loop in which imencode or a
\* write raises ends that connection's loop and changes nothing else: the
\* endpoint table, the caches, the capture thread, every handle, the registry
\* and every other connection stay as they are; and whatever the connections
\* do, the server accepts the next connection.
C24_FailureEndsOneConnection ==
    /\ [][\A c \in Conns, f \in 0..3 :
            (StreamPart(c, f) /\ ~entries[conns[c].data].b.null)
                => /\ conns'[c].pc = "closed"
                   /\ \A d \in Conns \ {c} : conns'[d] = conns[d]
                   /\ UNCHANGED <<OUT, entries, capt, hs, STREAM>>]_vars
    /\ [](\A d \in Conns :
            Accepting(d) => ENABLED Get(d, <<"/", "a">>, TRUE))

\* connection 1 was cut in the middle of a part while connection 2 streams,
\* and connection 2 has been sent a part
C24_Witness ==
    /\ conns[1].pc = "closed"
    /\ Len(conns[1].wfile) > Len(ResponseHeader)
    /\ Len(conns[1].wfile) >
           Len(ResponseHeader) + conns[1].parts * Len(PartOf(0))
    /\ conns[2].pc = "streaming"
    /\ conns[2].parts >= 1

Streaming == {c \in Conns : conns[c].pc = "streaming"}

\* C25: at most one connection is in its streaming loop at any time, and a
\* connection is accepted only after every connection before it has ended.
C25_OneConnectionAtATime ==
    /\ Cardinality(Streaming) <= 1
    /\ \A c, d \in Conns :
          (d < c /\ conns[c].pc # "none") => conns[d].pc = "closed"

\* C25, amended: the accept loop takes the connections one at a time and in
\* order, and an accept touches no other connection; each connection is
\* served by a thread of its own, so while connections stream the loop
\* accepts the next one.
C25_AcceptsWhileStreaming ==
    /\ [][\A c \in Conns, path \in Paths, ok \in BOOLEAN :
            Get(c, path, ok)
                => /\ \A d \in Conns : d < c => conns[d].pc # "none"
                   /\ \A d \in Conns \ {c} : conns'[d] = conns[d]]_vars
    /\ [](\A c \in Conns :
            (Accepting(c) /\ Streaming # {})
                => ENABLED Get(c, <<"/", "a">>, TRUE))

\* both connections are in their streaming loops and each was sent a part
C25_Witness ==
    /\ Streaming = Conns
    /\ \A c \in Conns : conns[c].parts >= 1

\* C26: a polling loop that finds the quit flag set stops at that test, and
\* every MediaStream that devicescan() drops from the registry has its quit
\* flag set by its destruction.
C26_DiscardedHandlesQuit ==
    [][/\ \A h \in Handles :
            (hs[h].quit /\ Run(h)) => hs'[h].lpc = "stopped"
       /\ \A capture \in BOOLEAN :
            DeviceScan(1, capture)
                => \A u \in Urls :
                     (Registered(u) /\ STREAM'[u] # STREAM[u])
                         => hs'[STREAM[u]].quit]_vars

\* C27: a frame() call that returns success = true returns an image decoded
\* from the source, not the black placeholder, that is the frame of the read
\* which set the flag, at the target size.
C27_FramePairConsistent ==
    [][\A u \in SeqUrls :
        (SMFrame(1, u) /\ Registered(u) /\ th'[1].out[1])
            => LET r == hs[STREAM[u]]
                   image == th'[1].out[2]
               IN  /\ image.img # Black
                   /\ image.img = r.newframe.img
                   /\ image.rows = r.size[1]
                   /\ image.cols = r.size[2]]_vars

\* C28: the entry a streaming connection sends the cache of is an entry of
\* the endpoint table, so the capture thread goes on refreshing it, also
\* after endpointAdd() has stored another MediaStream under the same name.
C28_StreamedEntryIsRefreshed ==
    \A c \in Conns :
        conns[c].pc = "streaming"
            => \E w \in Paths : OUT[w] = conns[c].data

\* C29: a MediaStream that is not paused, or whose loop is past the paused
\* test of its current iteration, has a capture object assigned; the loop
\* never stops on a capture that is None.
C29_UnpausedHasSource ==
    \A h \in Handles :
        hs[h].lpc # "none"
            => /\ (~hs[h].paused \/ hs[h].lpc = "proc") => hs[h].source.obj
               /\ hs[h].lpc = "crashed" => hs[h].source.obj

\* after a capture() that failed and one that opened, the capture was
\* released: the loop, not paused, is in an iteration on the closed capture
C29_Witness ==
    /\ ~hs[1].paused
    /\ hs[1].lpc = "proc"
    /\ hs[1].fails >= 1
    /\ hs[1].opens >= 1
    /\ hs[1].source.obj
    /\ ~hs[1].source.opened

====
